---- MODULE Spec2Model ----
(***************************************************************************)
(* The game state machine of src/game.js: a Game snapshot is advanced by   *)
(* tick(delta, command), pause() and mute().  The tetrion (board engine),  *)
(* the progress tracker and the sound player are collaborators imported    *)
(* by game.js; they are modelled by their contracts, and every result they *)
(* may return is an input of the step that calls them.                     *)
(***************************************************************************)
EXTENDS Integers, Sequences, FiniteSets, TLC

VARIABLES
  game,      \* the current Game snapshot (an immutable object)
  did,       \* the last call made on it and what that call did: its name,
             \* whether a command was given, the branch that ran, the tetrion
             \* operations invoked, the rewards passed to progress.add and
             \* the cues passed to play()
  held,      \* <<snapshot>> taken before a pause() that only ticks followed
  elapsed,   \* sum of the deltas of the ticks made while not paused
  ticks      \* number of ticks made while not paused

vars == <<game, did, held, elapsed, ticks>>

---------------------------------------------------------------------------
(* Program constants *)

SPAWN_DELAY == 100
LOCK_DELAY == 1000

(* Bounds of the model *)

MaxTicks == 3            \* at most MaxTicks ticks are made while not paused
MaxLevel == 2            \* the tracker's level stays <= MaxLevel
MaxGravityLevel == 360   \* the levels at which gravityDelay is evaluated
MaxPieces == 1           \* the pieces the finite board can take
MaxRows == 1             \* the rows a piece can fall on the finite board

(* Inputs *)

Deltas == {99, 100, 999, 1000}

\* the deltas of the ticks that are given every command: one below each
\* delay and one that reaches each
NamedDeltas == {99, 1000}

\* the deltas of the ticks of a game played to its end: one that reaches
\* every delay and one that takes several ticks to reach the gravity and the
\* lock delay
LiveDeltas == {400, 1000}

RewardLines == {0, 1}    \* the lines a reward may report

\* the commands of playSound's switch, lines 185-198
Commands == {"moveLeft", "moveRight", "moveDown", "softDrop", "rotateLeft",
             "rotateRight", "firmDrop", "hardDrop", "hold"}

\* the commands given to tick: one of each cue of playSound
Given == {"moveLeft", "rotateRight", "hardDrop", "hold"}

None == "none"           \* no command supplied (null): falsy in tick's test

Unknown == "bogus"       \* a name that is no operation of the tetrion

Null == [null |-> TRUE]  \* the null reward

---------------------------------------------------------------------------
(* Collaborators *)

\* new Tetrion(): an empty board.  Of a tetrion, game.js reads fallingPiece
\* and, only when there is a falling piece, canMoveDown.
NewTetrion == [fallingPiece |-> FALSE, canMoveDown |-> FALSE]

Tetrions ==
  { t \in [fallingPiece : BOOLEAN, canMoveDown : BOOLEAN] :
      t.canMoveDown => t.fallingPiece }

\* What the collaborators may answer to the one request of a tick: whether
\* the operation returns its receiver (same) or a new tetrion, which one,
\* the lines of the reward it reports and the level increase of
\* progress.add.  spawn reports no reward, and only lock and the commands
\* are followed by progress.add.
Envs(t, p, asked) ==
  { [same |-> (o = <<>>), tetrion |-> IF o = <<>> THEN t ELSE o[1],
     lines |-> n, up |-> u] :
      o \in {<<>>} \cup (IF asked = "none" THEN {} ELSE {<<x>> : x \in Tetrions}),
      n \in IF asked \in {"gravity", "lock", "command"}
            THEN RewardLines ELSE {0},
      u \in 0 .. (IF asked \in {"lock", "command"} /\ p.level < MaxLevel
                  THEN 1 ELSE 0) }

\* tetrion.spawn(): same tells whether result.tetrion === the receiver
spawn(t, env) == [tetrion |-> env.tetrion, same |-> env.same]

\* tetrion.moveDown(), tetrion.lock(level), tetrion[command](level)
transform(t, env) ==
  [tetrion |-> env.tetrion, same |-> env.same, reward |-> [lines |-> env.lines]]

\* new Progress(): of a progress, game.js reads the level
NewProgress == [level |-> 1]

\* progress.add(reward): a new progress, whose level the tracker decides
add(p, r, env) == [level |-> p.level + env.up]

---------------------------------------------------------------------------
(* Game *)

\* copy(obj, props) of fkit: obj with the given properties replaced
copy(obj, props) ==
  [f \in DOMAIN obj |-> IF f \in DOMAIN props THEN props[f] ELSE obj[f]]

\* constructor(muted)
NewGame(m) ==
  [time |-> 0, state |-> "spawning", paused |-> FALSE, muted |-> m,
   tetrion |-> NewTetrion, spawnTimer |-> 0, lockTimer |-> 0,
   gravityTimer |-> 0, progress |-> NewProgress, reward |-> Null]

level(this) == this.progress.level
isIdle(this) == this.state = "idle"
isSpawning(this) == this.state = "spawning"
isLocking(this) == this.state = "locking"
over(this) == this.state = "finished"

\* Math.round(-333.54 * Math.log(level) + 999.98) as JavaScript evaluates it,
\* for level 1 .. 24
GravityTable ==
  <<1000, 769, 634, 538, 463, 402, 351, 306, 267, 232, 200, 171, 144, 120,
    97, 75, 55, 36, 18, 1, -15, -31, -46, -60>>

\* Math.log in fixed point: numbers are held as integers, Scale to the unit.
\* The error of Logs stays below 4 / 10^7 for the levels evaluated, and
\* -333.54 * ln(level) + 999.98 is more than 5 / 10^3 away from a rounding
\* boundary there, so the rounded delay is the one the floating-point
\* evaluation gives.  All intermediate values stay below 2^31.
Scale == 100000000

\* the integer nearest to a / b, for a >= 0 and b > 0
rdiv(a, b) == (2 * a + b) \div (2 * b)

\* the sum over k >= j of p / (2 k + 1) / m2^(k - j)
RECURSIVE series(_, _, _)
series(p, j, m2) ==
  IF p = 0 THEN 0 ELSE rdiv(p, 2 * j + 1) + series(rdiv(p, m2), j + 1, m2)

\* Scale * 2 * atanh(1 / m) = Scale * ln((m + 1) / (m - 1))
atanh2(m) == series(rdiv(2 * Scale, m), 0, m * m)

\* <<Scale * ln(lo), ..., Scale * ln(hi)>> from before = Scale * ln(lo - 1),
\* by ln(k) = ln(k - 1) + ln(k / (k - 1)); ln(1) = 0
RECURSIVE LogsFrom(_, _, _)
LogsFrom(lo, hi, before) ==
  IF lo = hi
  THEN <<IF lo = 1 THEN 0 ELSE before + atanh2(2 * lo - 1)>>
  ELSE LET mid == (lo + hi) \div 2
           left == LogsFrom(lo, mid, before)
       IN left \o LogsFrom(mid + 1, hi, left[Len(left)])

Logs == LogsFrom(1, MaxGravityLevel + 1, 0)

\* Math.round that drops the fraction
round_truncating(v) == v \div 1000000

\* Math.round of v / 10^6: the nearest integer, a half rounding up
round(v) == (v + 500000) \div 1000000

\* 10^6 * (-333.54 * ln + 999.98), for ln given as Scale * ln
delayOfLog(ln) ==
  999980000 - (33354 * (ln \div 10000) + (33354 * (ln % 10000)) \div 10000)

\* Math.round(-333.54 * Math.log(level) + 999.98), level by level
GravityDelays == [n \in 1 .. MaxGravityLevel + 1 |-> round(delayOfLog(Logs[n]))]

gravityDelay(this) == GravityDelays[level(this)]

\* playSound that tests clearLine before levelUp
playSound_clearLineFirst(this, command, clearLine, levelUp) ==
  IF this.muted THEN <<>>
  ELSE IF clearLine THEN <<"clear-line">>
  ELSE IF levelUp THEN <<"level-up">>
  ELSE IF command \in {"moveLeft", "moveRight", "moveDown", "softDrop"}
       THEN <<"move">>
  ELSE IF command \in {"rotateLeft", "rotateRight"} THEN <<"rotate">>
  ELSE IF command \in {"firmDrop", "hardDrop"} THEN <<"drop">>
  ELSE IF command = "lock" THEN <<"lock">>
  ELSE IF command = "hold" THEN <<"hold">>
  ELSE IF command = "gameOver" THEN <<"game-over">>
  ELSE <<>>

\* playSound that does not test this.muted
playSound_ignoresMute(this, command, clearLine, levelUp) ==
  IF levelUp THEN <<"level-up">>
  ELSE IF clearLine THEN <<"clear-line">>
  ELSE IF command \in {"moveLeft", "moveRight", "moveDown", "softDrop"}
       THEN <<"move">>
  ELSE IF command \in {"rotateLeft", "rotateRight"} THEN <<"rotate">>
  ELSE IF command \in {"firmDrop", "hardDrop"} THEN <<"drop">>
  ELSE IF command = "lock" THEN <<"lock">>
  ELSE IF command = "hold" THEN <<"hold">>
  ELSE IF command = "gameOver" THEN <<"game-over">>
  ELSE <<>>

\* playSound(command, clearLine, levelUp): the cues passed to play()
playSound(this, command, clearLine, levelUp) ==
  IF this.muted THEN <<>>
  ELSE IF levelUp THEN <<"level-up">>
  ELSE IF clearLine THEN <<"clear-line">>
  ELSE IF command \in {"moveLeft", "moveRight", "moveDown", "softDrop"}
       THEN <<"move">>
  ELSE IF command \in {"rotateLeft", "rotateRight"} THEN <<"rotate">>
  ELSE IF command \in {"firmDrop", "hardDrop"} THEN <<"drop">>
  ELSE IF command = "lock" THEN <<"lock">>
  ELSE IF command = "hold" THEN <<"hold">>
  ELSE IF command = "gameOver" THEN <<"game-over">>
  ELSE <<>>

\* Locals with the delta forgotten
Locals_staleTime(this, t) ==
  [time |-> this.time, state |-> this.state, tetrion |-> this.tetrion,
   spawnTimer |-> this.spawnTimer, lockTimer |-> this.lockTimer,
   gravityTimer |-> this.gravityTimer, progress |-> this.progress,
   reward |-> this.reward,
   fired |-> "none", calls |-> <<>>, adds |-> <<>>, sounds |-> <<>>]

\* Locals with the reward cleared at the start of every tick
Locals_clearsReward(this, t) ==
  [time |-> t, state |-> this.state, tetrion |-> this.tetrion,
   spawnTimer |-> this.spawnTimer, lockTimer |-> this.lockTimer,
   gravityTimer |-> this.gravityTimer, progress |-> this.progress,
   reward |-> Null,
   fired |-> "none", calls |-> <<>>, adds |-> <<>>, sounds |-> <<>>]

\* tick's local variables as declared at lines 86-93, with the record of
\* what the call did
Locals(this, t) ==
  [time |-> t, state |-> this.state, tetrion |-> this.tetrion,
   spawnTimer |-> this.spawnTimer, lockTimer |-> this.lockTimer,
   gravityTimer |-> this.gravityTimer, progress |-> this.progress,
   reward |-> this.reward,
   fired |-> "none", calls |-> <<>>, adds |-> <<>>, sounds |-> <<>>]

\* a tetrion operation invoked, and whether it returned its receiver
Call(name, result) == [op |-> name, same |-> result.same]

\* a progress.add invoked: its argument and its result
Added(r, p) == [reward |-> r, result |-> p]

\* spawnBranch in which a failed spawn is not the end of the game
spawnBranch_neverFinishes(this, l, env) ==
  LET result == spawn(this.tetrion, env)
  IN [l EXCEPT !.fired = "spawn",
               !.calls = Append(@, Call("spawn", result)),
               !.tetrion = result.tetrion,
               !.state = "idle", !.gravityTimer = l.time]

\* lines 96-105
spawnBranch(this, l, env) ==
  LET result == spawn(this.tetrion, env)
      l1 == [l EXCEPT !.fired = "spawn",
                      !.calls = Append(@, Call("spawn", result)),
                      !.tetrion = result.tetrion]
  IN IF result.same
     THEN [l1 EXCEPT !.sounds = @ \o playSound(this, "gameOver", FALSE, FALSE),
                     !.state = "finished"]
     ELSE [l1 EXCEPT !.state = "idle", !.gravityTimer = l.time]

\* gravityBranch that never starts locking
gravityBranch_neverLocks(this, l, env) ==
  LET result == transform(this.tetrion, env)
  IN [l EXCEPT !.fired = "gravity",
               !.calls = Append(@, Call("moveDown", result)),
               !.tetrion = result.tetrion, !.reward = result.reward,
               !.sounds = @ \o playSound(this, "moveDown", FALSE, FALSE),
               !.state = "idle", !.gravityTimer = l.time]

\* gravityBranch that starts locking when the piece did move
gravityBranch_locksOnMove(this, l, env) ==
  LET result == transform(this.tetrion, env)
      l1 == [l EXCEPT !.fired = "gravity",
                      !.calls = Append(@, Call("moveDown", result)),
                      !.tetrion = result.tetrion, !.reward = result.reward,
                      !.sounds = @ \o playSound(this, "moveDown", FALSE, FALSE),
                      !.state = "idle", !.gravityTimer = l.time]
  IN IF ~result.same
     THEN [l1 EXCEPT !.state = "locking", !.lockTimer = l.time]
     ELSE l1

\* gravityBranch that starts locking without starting the lock timer
gravityBranch_keepsLockTimer(this, l, env) ==
  LET result == transform(this.tetrion, env)
  IN [l EXCEPT !.fired = "gravity",
               !.calls = Append(@, Call("moveDown", result)),
               !.tetrion = result.tetrion, !.reward = result.reward,
               !.sounds = @ \o playSound(this, "moveDown", FALSE, FALSE),
               !.state = IF result.same THEN "locking" ELSE "idle",
               !.gravityTimer = l.time]

\* lines 107-121
gravityBranch(this, l, env) ==
  LET result == transform(this.tetrion, env)
      l1 == [l EXCEPT !.fired = "gravity",
                      !.calls = Append(@, Call("moveDown", result)),
                      !.tetrion = result.tetrion, !.reward = result.reward,
                      !.sounds = @ \o playSound(this, "moveDown", FALSE, FALSE),
                      !.state = "idle", !.gravityTimer = l.time]
  IN IF result.same
     THEN [l1 EXCEPT !.state = "locking", !.lockTimer = l.time]
     ELSE l1

\* lockBranch that starts spawning without starting the spawn timer
lockBranch_keepsSpawnTimer(this, l, env) ==
  LET result == transform(this.tetrion, env)
      newProgress == add(l.progress, result.reward, env)
  IN [l EXCEPT !.fired = "lock",
               !.calls = Append(@, Call("lock", result)),
               !.tetrion = result.tetrion, !.reward = result.reward,
               !.progress = newProgress,
               !.adds = Append(@, Added(result.reward, newProgress)),
               !.sounds = @ \o playSound(this, "lock", result.reward.lines > 0,
                                         newProgress.level > l.progress.level),
               !.state = "spawning"]

\* lines 123-132
lockBranch(this, l, env) ==
  LET result == transform(this.tetrion, env)
      oldProgress == l.progress
      newProgress == add(l.progress, result.reward, env)
  IN [l EXCEPT !.fired = "lock",
               !.calls = Append(@, Call("lock", result)),
               !.tetrion = result.tetrion, !.reward = result.reward,
               !.progress = newProgress,
               !.adds = Append(@, Added(result.reward, newProgress)),
               !.sounds = @ \o playSound(this, "lock", result.reward.lines > 0,
                                         newProgress.level > oldProgress.level),
               !.state = "spawning", !.spawnTimer = l.time]

\* commandBranch that restarts the lock timer when the game stays locking
commandBranch_restartsLockTimer(this, l, command, env) ==
  LET result == transform(this.tetrion, env)
      newProgress == add(l.progress, result.reward, env)
      l1 == [l EXCEPT !.fired = "command",
                      !.calls = Append(@, Call("dispatch", result)),
                      !.tetrion = result.tetrion, !.reward = result.reward,
                      !.progress = newProgress,
                      !.adds = Append(@, Added(result.reward, newProgress))]
      l2 == IF ~result.same
            THEN [l1 EXCEPT !.sounds = @ \o playSound(this, command,
                                result.reward.lines > 0,
                                newProgress.level > l.progress.level)]
            ELSE l1
  IN IF ~l2.tetrion.fallingPiece
     THEN [l2 EXCEPT !.state = "spawning", !.spawnTimer = l.time]
     ELSE IF isLocking(this) /\ l2.tetrion.canMoveDown
     THEN [l2 EXCEPT !.state = "idle", !.gravityTimer = l.time]
     ELSE IF isLocking(this) THEN [l2 EXCEPT !.lockTimer = l.time]
     ELSE l2

\* commandBranch whose second test forgets this.isLocking
commandBranch_abortFromIdle(this, l, command, env) ==
  LET result == transform(this.tetrion, env)
      newProgress == add(l.progress, result.reward, env)
      l1 == [l EXCEPT !.fired = "command",
                      !.calls = Append(@, Call("dispatch", result)),
                      !.tetrion = result.tetrion, !.reward = result.reward,
                      !.progress = newProgress,
                      !.adds = Append(@, Added(result.reward, newProgress))]
      l2 == IF ~result.same
            THEN [l1 EXCEPT !.sounds = @ \o playSound(this, command,
                                result.reward.lines > 0,
                                newProgress.level > l.progress.level)]
            ELSE l1
  IN IF ~l2.tetrion.fallingPiece
     THEN [l2 EXCEPT !.state = "spawning", !.spawnTimer = l.time]
     ELSE IF l2.tetrion.canMoveDown
     THEN [l2 EXCEPT !.state = "idle", !.gravityTimer = l.time]
     ELSE l2

\* lines 134-154
commandBranch(this, l, command, env) ==
  LET result == transform(this.tetrion, env)
      oldProgress == l.progress
      newProgress == add(l.progress, result.reward, env)
      l1 == [l EXCEPT !.fired = "command",
                      !.calls = Append(@, Call("dispatch", result)),
                      !.tetrion = result.tetrion, !.reward = result.reward,
                      !.progress = newProgress,
                      !.adds = Append(@, Added(result.reward, newProgress))]
      l2 == IF ~result.same
            THEN [l1 EXCEPT !.sounds = @ \o playSound(this, command,
                                result.reward.lines > 0,
                                newProgress.level > oldProgress.level)]
            ELSE l1
  IN IF ~l2.tetrion.fallingPiece
     THEN [l2 EXCEPT !.state = "spawning", !.spawnTimer = l.time]
     ELSE IF isLocking(this) /\ l2.tetrion.canMoveDown
     THEN [l2 EXCEPT !.state = "idle", !.gravityTimer = l.time]
     ELSE l2

\* due that tests for a command before the timers
due_commandFirst(this, t, command) ==
  IF (isIdle(this) \/ isLocking(this)) /\ command # None THEN "command"
  ELSE IF isSpawning(this) /\ t - this.spawnTimer >= SPAWN_DELAY THEN "spawn"
  ELSE IF isIdle(this) /\ t - this.gravityTimer >= gravityDelay(this)
  THEN "gravity"
  ELSE IF isLocking(this) /\ t - this.lockTimer >= LOCK_DELAY THEN "lock"
  ELSE "none"

\* due with > for >= in the spawn test
due_strictSpawn(this, t, command) ==
  IF isSpawning(this) /\ t - this.spawnTimer > SPAWN_DELAY THEN "spawn"
  ELSE IF isIdle(this) /\ t - this.gravityTimer >= gravityDelay(this)
  THEN "gravity"
  ELSE IF isLocking(this) /\ t - this.lockTimer >= LOCK_DELAY THEN "lock"
  ELSE IF (isIdle(this) \/ isLocking(this)) /\ command # None THEN "command"
  ELSE "none"

\* due whose last test forgets the state
due_anyState(this, t, command) ==
  IF isSpawning(this) /\ t - this.spawnTimer >= SPAWN_DELAY THEN "spawn"
  ELSE IF isIdle(this) /\ t - this.gravityTimer >= gravityDelay(this)
  THEN "gravity"
  ELSE IF isLocking(this) /\ t - this.lockTimer >= LOCK_DELAY THEN "lock"
  ELSE IF command # None THEN "command"
  ELSE "none"

\* the conditions of the if / else-if chain of lines 95, 106, 122 and 133:
\* the branch that runs at time t
due(this, t, command) ==
  IF isSpawning(this) /\ t - this.spawnTimer >= SPAWN_DELAY THEN "spawn"
  ELSE IF isIdle(this) /\ t - this.gravityTimer >= gravityDelay(this)
  THEN "gravity"
  ELSE IF isLocking(this) /\ t - this.lockTimer >= LOCK_DELAY THEN "lock"
  ELSE IF (isIdle(this) \/ isLocking(this)) /\ command # None THEN "command"
  ELSE "none"

\* the body of branch b, on the locals l
body(b, this, l, command, env) ==
  CASE b = "spawn" -> spawnBranch(this, l, env)
    [] b = "gravity" -> gravityBranch(this, l, env)
    [] b = "lock" -> lockBranch(this, l, env)
    [] b = "command" -> commandBranch(this, l, command, env)
    [] OTHER -> l

\* branches written as consecutive ifs on the local state: after a branch
\* has run, the tests are made again on what it left
branches_fallThrough(this, l, command, env) ==
  LET l1 == body(due(this, l.time, command), this, l, command, env)
      now == copy(this, [state |-> l1.state, spawnTimer |-> l1.spawnTimer,
                         lockTimer |-> l1.lockTimer,
                         gravityTimer |-> l1.gravityTimer,
                         progress |-> l1.progress])
  IN IF l1.fired = "none" THEN l1
     ELSE body(due(now, l.time, command), now, l1, command, env)

\* the if / else-if chain of lines 95-155: the one branch that is due runs
branches(this, l, command, env) ==
  body(due(this, l.time, command), this, l, command, env)

\* line 157, after the chain: the new game and the record of the call
running(this, delta, command, env) ==
  LET l == branches(this, Locals(this, this.time + delta), command, env)
  IN [game |-> copy(this, [time |-> l.time, state |-> l.state,
                           tetrion |-> l.tetrion,
                           spawnTimer |-> l.spawnTimer,
                           lockTimer |-> l.lockTimer,
                           gravityTimer |-> l.gravityTimer,
                           progress |-> l.progress, reward |-> l.reward]),
      fired |-> l.fired, calls |-> l.calls, adds |-> l.adds,
      sounds |-> l.sounds]

\* line 135: this.tetrion[command] is undefined when command names no
\* operation of the tetrion, and calling it throws a TypeError; the call is
\* reached only when the dispatch branch is the one that runs
throws(this, delta, command) ==
  /\ ~this.paused
  /\ due(this, this.time + delta, command) = "command"
  /\ command \notin Commands

\* tick without the early return of lines 82-84
tick_ignoringPause(this, delta, command, env) ==
  running(this, delta, command, env)

\* tick(delta, command): lines 82-84 return this when paused
tick(this, delta, command, env) ==
  IF this.paused
  THEN [game |-> this, fired |-> "paused", calls |-> <<>>, adds |-> <<>>,
        sounds |-> <<>>]
  ELSE IF throws(this, delta, command)
  THEN [game |-> this, fired |-> "threw", calls |-> <<>>, adds |-> <<>>,
        sounds |-> <<>>]
  ELSE running(this, delta, command, env)

\* pause() that also restarts the three timers at the current time
pause_restartsTimers(this) ==
  copy(this, [paused |-> ~this.paused, spawnTimer |-> this.time,
              lockTimer |-> this.time, gravityTimer |-> this.time])

\* pause()
pause(this) == copy(this, [paused |-> ~this.paused])

\* mute()
mute(this) == copy(this, [muted |-> ~this.muted])

\* the answers the collaborators may give to tick(delta, command) on this
Answers(this, delta, command) ==
  Envs(this.tetrion, this.progress,
       IF this.paused \/ throws(this, delta, command) THEN "none"
       ELSE due(this, this.time + delta, command))

---------------------------------------------------------------------------
(* The state machine *)

Did(name, delta, command, r) ==
  [name |-> name, given |-> (command # None), fired |-> r.fired,
   calls |-> r.calls, adds |-> r.adds, sounds |-> r.sounds]

Nothing == [fired |-> "none", calls |-> <<>>, adds |-> <<>>, sounds |-> <<>>]

Init ==
  /\ \E m \in BOOLEAN : game = NewGame(m)
  /\ did = Did("new", 0, None, Nothing)
  /\ held = <<>>
  /\ elapsed = 0
  /\ ticks = 0

Tick ==
  \E delta \in Deltas, command \in Given \cup {None} :
    /\ game.paused \/ ticks < MaxTicks
    /\ \E env \in Answers(game, delta, command) :
         LET r == tick(game, delta, command, env)
         IN /\ game' = r.game
            /\ did' = Did("tick", delta, command, r)
    /\ elapsed' = IF game.paused THEN elapsed ELSE elapsed + delta
    /\ ticks' = IF game.paused THEN ticks ELSE ticks + 1
    /\ UNCHANGED held

Pause ==
  /\ game' = pause(game)
  /\ did' = Did("pause", 0, None, Nothing)
  /\ held' = IF game.paused THEN <<>> ELSE <<game>>
  /\ UNCHANGED <<elapsed, ticks>>

Mute ==
  /\ game' = mute(game)
  /\ did' = Did("mute", 0, None, Nothing)
  /\ held' = <<>>
  /\ UNCHANGED <<elapsed, ticks>>

Next == Tick \/ Pause \/ Mute

Spec == Init /\ [][Next]_vars

\* the same machine, given every command of the set and an unknown one, the
\* record of a tick keeping the command it was given
DidNamed(name, delta, command, r) ==
  [name |-> name, given |-> (command # None), fired |-> r.fired,
   calls |-> r.calls, adds |-> r.adds, sounds |-> r.sounds,
   command |-> command]

\* a tick that throws returns nothing: the caller is left with the game it
\* had, and no time has passed in it
TickNamed ==
  \E delta \in NamedDeltas, command \in Commands \cup {None, Unknown} :
    /\ game.paused \/ ticks < MaxTicks
    /\ \E env \in Answers(game, delta, command) :
         LET r == tick(game, delta, command, env)
         IN /\ game' = r.game
            /\ did' = DidNamed("tick", delta, command, r)
            /\ elapsed' = IF r.fired \in {"paused", "threw"}
                          THEN elapsed ELSE elapsed + delta
    /\ ticks' = IF game.paused THEN ticks ELSE ticks + 1
    /\ UNCHANGED held

NextNamed == TickNamed \/ Pause \/ Mute

SpecNamed == Init /\ [][NextNamed]_vars

\* the answers of an engine that keeps its contract: a spawn that succeeds
\* gives a falling piece; moveDown returns its receiver exactly when the
\* piece cannot move down, and otherwise a tetrion in which it still falls
SaneAnswers(this, delta, command) ==
  LET asked == IF this.paused THEN "none"
               ELSE due(this, this.time + delta, command)
  IN { env \in Answers(this, delta, command) :
         /\ (asked = "spawn" /\ ~env.same) => env.tetrion.fallingPiece
         /\ asked = "gravity"
            => /\ env.same <=> ~this.tetrion.canMoveDown
               /\ ~env.same => env.tetrion.fallingPiece }

\* tick with such an engine
TickSane ==
  \E delta \in Deltas, command \in Given \cup {None} :
    /\ game.paused \/ ticks < MaxTicks
    /\ \E env \in SaneAnswers(game, delta, command) :
         LET r == tick(game, delta, command, env)
         IN /\ game' = r.game
            /\ did' = Did("tick", delta, command, r)
    /\ elapsed' = IF game.paused THEN elapsed ELSE elapsed + delta
    /\ ticks' = IF game.paused THEN ticks ELSE ticks + 1
    /\ UNCHANGED held

NextSane == TickSane \/ Pause \/ Mute

SpecSane == Init /\ [][NextSane]_vars

\* a finite board: a tetrion also tells the rows its falling piece can still
\* move down and the pieces that can still be spawned
LiveTetrion(falling, rows, pieces) ==
  [fallingPiece |-> falling, canMoveDown |-> falling /\ rows > 0,
   rows |-> rows, pieces |-> pieces]

\* the answers of an engine on a finite board to a tick without a command:
\* spawn fails when no piece is left, moveDown returns its receiver when the
\* piece has no row left to move, lock takes the piece off
LiveAnswers(this, delta) ==
  LET t == this.tetrion
      asked == due(this, this.time + delta, None)
      unchanged == [same |-> TRUE, tetrion |-> t, lines |-> 0, up |-> 0]
  IN CASE asked = "spawn" ->
            IF t.pieces = 0 THEN {unchanged}
            ELSE { [same |-> FALSE, lines |-> 0, up |-> 0,
                    tetrion |-> LiveTetrion(TRUE, rows, t.pieces - 1)] :
                     rows \in 0 .. MaxRows }
       [] asked = "gravity" ->
            IF t.rows = 0 THEN {unchanged}
            ELSE { [same |-> FALSE, lines |-> n, up |-> 0,
                    tetrion |-> LiveTetrion(TRUE, t.rows - 1, t.pieces)] :
                     n \in {0} }
       [] asked = "lock" ->
            { [same |-> FALSE, lines |-> n, up |-> u,
               tetrion |-> LiveTetrion(FALSE, 0, t.pieces)] :
                n \in RewardLines,
                u \in 0 .. (IF this.progress.level < MaxLevel THEN 1 ELSE 0) }
       [] OTHER -> {unchanged}

\* the time by which a game on the finite board is over: a spawn comes
\* within SPAWN_DELAY and a gravity step or a lock within LOCK_DELAY of the
\* timer's start, each at most one delta late
Horizon ==
  (MaxPieces + 1) * (SPAWN_DELAY + LOCK_DELAY)
  + MaxPieces * (MaxRows + 2) * 2 * LOCK_DELAY

InitLive ==
  /\ \E m \in BOOLEAN :
       game = copy(NewGame(m), [tetrion |-> LiveTetrion(FALSE, 0, MaxPieces)])
  /\ did = Did("new", 0, None, Nothing)
  /\ held = <<>>
  /\ elapsed = 0
  /\ ticks = 0

\* the ticks of a game that is never paused and given no command, made for
\* as long as the game is not over
TickLive ==
  \E delta \in LiveDeltas :
    /\ ~over(game) /\ game.time < Horizon
    /\ \E env \in LiveAnswers(game, delta) :
         LET r == tick(game, delta, None, env)
         IN /\ game' = r.game
            /\ did' = Did("tick", delta, None, r)
    /\ elapsed' = elapsed + delta
    /\ ticks' = ticks + 1
    /\ UNCHANGED held

NextLive == TickLive

\* a tick is made: the steps of TickLive are the steps that count a tick
Ticking == ~over(game) /\ game.time < Horizon /\ ticks' = ticks + 1

\* the caller keeps ticking for as long as the game is not over
SpecLive == InitLive /\ [][NextLive]_vars /\ WF_ticks(Ticking)

\* a game at level n with a piece falling, its gravity timer just restarted
AtLevel(n) ==
  copy(NewGame(FALSE),
       [state |-> "idle", progress |-> [level |-> n],
        tetrion |-> [fallingPiece |-> TRUE, canMoveDown |-> TRUE]])

InitGravity ==
  /\ \E n \in 1 .. MaxGravityLevel : game = AtLevel(n)
  /\ did = Did("new", 0, None, Nothing)
  /\ held = <<>>
  /\ elapsed = 0
  /\ ticks = 0

\* one tick of the game at level n, without a command: gravity is applied
\* when the delta reaches gravityDelay
TickGravity ==
  \E delta \in Deltas :
    /\ ticks = 0
    /\ \E env \in Answers(game, delta, None) :
         LET r == tick(game, delta, None, env)
         IN /\ game' = r.game
            /\ did' = Did("tick", delta, None, r)
    /\ elapsed' = elapsed + delta
    /\ ticks' = ticks + 1
    /\ UNCHANGED held

NextGravity == TickGravity

SpecGravity == InitGravity /\ [][NextGravity]_vars

---------------------------------------------------------------------------
(* Properties *)

\* the last call was a tick / the step being taken is a tick
Ticked == did.name = "tick"

\* g2 is g with only the time advanced
OnlyTime(g, g2) == g2 = [g EXCEPT !.time = g2.time]

Timers(g) == <<g.spawnTimer, g.lockTimer, g.gravityTimer>>

\* the call invoked nothing: no tetrion operation, no progress.add, no cue
Silent(d) == d.calls = <<>> /\ d.adds = <<>> /\ d.sounds = <<>>

\* C1: a tick on a paused game returns a game equal to it in every field,
\* whatever the delta and the command, and invokes no tetrion operation, no
\* progress.add and no cue; so pause(), any number of ticks, pause() gives
\* back the game that was there before the first pause().
C1_PausedTickChangesNothing ==
  [][ /\ (game.paused /\ did'.name = "tick")
         => (game' = game /\ did'.fired = "paused" /\ Silent(did')
             /\ held' = held)
      /\ (game.paused /\ did'.name = "pause" /\ held # <<>>)
         => game' = held[1] ]_vars

\* a paused game, paused in the middle of locking, that has just been given
\* a tick with a command, all calls since the pause() being ticks
C1_Witness ==
  /\ game.paused /\ held # <<>>
  /\ Ticked /\ did.given /\ did.fired = "paused"
  /\ game.state = "locking" /\ game.time > game.lockTimer

\* C2: once the state is finished, every tick, pause and mute leaves it
\* finished, and no tetrion operation is invoked.
C2_FinishedIsAbsorbing ==
  [][ game.state = "finished"
      => (game'.state = "finished" /\ did'.calls = <<>> /\ did'.adds = <<>>) ]_vars

\* a finished game, not paused, that has just been given a tick with a
\* command
C2_Witness ==
  /\ game.state = "finished" /\ ~game.paused
  /\ Ticked /\ did.given /\ did.fired = "none" /\ ticks >= 2

\* the transitions one branch can make
OneStep ==
  {<<"spawning", "spawning">>, <<"spawning", "idle">>, <<"spawning", "finished">>,
   <<"idle", "idle">>, <<"idle", "locking">>, <<"idle", "spawning">>,
   <<"locking", "locking">>, <<"locking", "spawning">>, <<"locking", "idle">>,
   <<"finished", "finished">>}

\* C3: a tick runs at most one branch: it invokes at most one tetrion
\* operation and the state makes at most one transition; a tick from
\* spawning whose delta also passes the gravity delay only spawns.
C3_AtMostOneBranch ==
  [][ did'.name = "tick"
      => /\ Len(did'.calls) <= 1 /\ Len(did'.adds) <= 1 /\ Len(did'.sounds) <= 1
         /\ (did'.fired \in {"paused", "none"} <=> did'.calls = <<>>)
         /\ <<game.state, game'.state>> \in OneStep
         /\ (game.state = "spawning" /\ did'.fired # "paused")
            => /\ did'.fired \in {"spawn", "none"}
               /\ \A i \in 1 .. Len(did'.calls) : did'.calls[i].op = "spawn"
               /\ game'.reward = game.reward
               /\ game'.lockTimer = game.lockTimer ]_vars

\* the first tick, given a command and a delta that passes the spawn delay
\* and the gravity delay of the level together, has only spawned a piece
C3_Witness ==
  /\ Ticked /\ ticks = 1 /\ did.given
  /\ game.time >= SPAWN_DELAY /\ game.time >= gravityDelay(game)
  /\ did.fired = "spawn" /\ Len(did.calls) = 1
  /\ game.state = "idle" /\ game.gravityTimer = game.time

\* C4: the time never decreases and is the sum of the deltas of the ticks
\* made while not paused, in every branch; pause() and mute() leave it alone.
C4_TimeIsElapsed ==
  [][ /\ game'.time >= game.time
      /\ game'.time = elapsed'
      /\ did'.name \in {"pause", "mute"} => game'.time = game.time
      /\ (did'.name = "tick" /\ game.paused) => game'.time = game.time ]_vars

\* a finished game after three ticks, the last of which ran no branch
C4_Witness ==
  /\ game.state = "finished" /\ Ticked /\ did.fired = "none"
  /\ ticks = 3 /\ game.time = elapsed /\ game.time >= 2 * LOCK_DELAY

\* C5: a tick of a spawning game that is not paused leaves the game as it
\* is but for the time, without calling spawn, when time + delta - spawnTimer
\* is below 100; otherwise it calls spawn, and the state becomes idle with
\* gravityTimer = time + delta when the spawn succeeded, finished when not.
\* From the new game tick(99) stays spawning and a successful tick(100) gives
\* idle with gravityTimer = 100.
C5_SpawnDelay ==
  [][ (game.state = "spawning" /\ ~game.paused /\ did'.name = "tick")
      => IF game'.time - game.spawnTimer < SPAWN_DELAY
         THEN OnlyTime(game, game') /\ Silent(did')
         ELSE /\ Len(did'.calls) = 1 /\ did'.calls[1].op = "spawn"
              /\ game'.state # "spawning"
              /\ ~did'.calls[1].same
                 => game'.state = "idle" /\ game'.gravityTimer = game'.time
              /\ (ticks = 0 /\ game'.time = 100 /\ ~did'.calls[1].same)
                 => game'.gravityTimer = 100 ]_vars

\* the new game after a successful tick(100)
C5_Witness ==
  /\ Ticked /\ ticks = 1 /\ game.time = 100 /\ did.fired = "spawn"
  /\ game.state = "idle" /\ game.gravityTimer = 100

\* C6: the state becomes finished exactly in a tick of a spawning game whose
\* spawn delay has passed and whose spawn returned the tetrion unchanged;
\* the tick then returns a game with over = true.
C6_FinishedOnlyByFailedSpawn ==
  [][ /\ (game.state # "finished" /\ game'.state = "finished")
         => /\ did'.name = "tick" /\ ~game.paused /\ game.state = "spawning"
            /\ game'.time - game.spawnTimer >= SPAWN_DELAY
            /\ did'.calls = <<[op |-> "spawn", same |-> TRUE]>>
            /\ game'.tetrion = game.tetrion
      /\ (did'.name = "tick" /\ did'.fired = "spawn" /\ did'.calls[1].same)
         => over(game') ]_vars

\* a game over at its first spawn
C6_Witness ==
  /\ over(game) /\ Ticked /\ did.fired = "spawn" /\ did.calls[1].same
  /\ game.time - game.spawnTimer >= SPAWN_DELAY

\* C7: a tick of a locking game that is not paused, given no command, leaves
\* the game as it is but for the time while time + delta - lockTimer is below
\* 1000; the tick that reaches 1000 calls lock, stores its reward, replaces
\* the progress by progress.add(reward) and starts spawning with spawnTimer
\* the new time, and a command given with it is not dispatched.
C7_LockDelay ==
  [][ (game.state = "locking" /\ ~game.paused /\ did'.name = "tick")
      => IF game'.time - game.lockTimer < LOCK_DELAY
         THEN ~did'.given => (OnlyTime(game, game') /\ Silent(did'))
         ELSE /\ did'.fired = "lock"
              /\ Len(did'.calls) = 1 /\ did'.calls[1].op = "lock"
              /\ did'.adds = <<[reward |-> game'.reward,
                               result |-> game'.progress]>>
              /\ game'.reward # Null
              /\ game'.state = "spawning"
              /\ game'.spawnTimer = game'.time
              /\ game'.lockTimer = game.lockTimer
              /\ game'.gravityTimer = game.gravityTimer ]_vars

\* a lock made exactly 1000 after locking began, by a tick given a command
C7_Witness ==
  /\ Ticked /\ did.given /\ did.fired = "lock"
  /\ game.time - game.lockTimer = LOCK_DELAY
  /\ game.state = "spawning" /\ game.spawnTimer = game.time

\* C8: a tick of an idle game that is not paused, when time + delta -
\* gravityTimer has reached gravityDelay, calls moveDown and sets gravityTimer
\* to the new time; when moveDown returned the tetrion unchanged the state
\* becomes locking with lockTimer the new time, otherwise it stays idle with
\* lockTimer unchanged.  A command given with it is not dispatched; below the
\* delay and without a command the tick changes only the time.
C8_Gravity ==
  [][ (game.state = "idle" /\ ~game.paused /\ did'.name = "tick")
      => IF game'.time - game.gravityTimer >= gravityDelay(game)
         THEN /\ did'.fired = "gravity"
              /\ Len(did'.calls) = 1 /\ did'.calls[1].op = "moveDown"
              /\ game'.gravityTimer = game'.time
              /\ game'.spawnTimer = game.spawnTimer
              /\ IF did'.calls[1].same
                 THEN game'.state = "locking" /\ game'.lockTimer = game'.time
                 ELSE game'.state = "idle" /\ game'.lockTimer = game.lockTimer
         ELSE ~did'.given => (OnlyTime(game, game') /\ Silent(did')) ]_vars

\* a blocked gravity step, made by a tick given a command
C8_Witness ==
  /\ Ticked /\ did.given /\ did.fired = "gravity" /\ did.calls[1].same
  /\ game.state = "locking" /\ game.lockTimer = game.time
  /\ game.gravityTimer = game.time

\* C9: a tick of an idle or locking game that is not paused, given a command
\* when neither the gravity delay nor the lock delay has passed, dispatches
\* the command; then the state is spawning with spawnTimer the new time when
\* the new tetrion has no falling piece, else idle with gravityTimer the new
\* time when the game was locking and the new tetrion can move down, else
\* the state and the three timers are as before.  From idle the state never
\* becomes locking.
C9_CommandDispatch ==
  [][ ( /\ game.state \in {"idle", "locking"} /\ ~game.paused
        /\ did'.name = "tick" /\ did'.given
        /\ game.state = "idle"
           => game'.time - game.gravityTimer < gravityDelay(game)
        /\ game.state = "locking"
           => game'.time - game.lockTimer < LOCK_DELAY )
      => /\ did'.fired = "command"
         /\ Len(did'.calls) = 1 /\ did'.calls[1].op = "dispatch"
         /\ IF ~game'.tetrion.fallingPiece
            THEN game'.state = "spawning" /\ game'.spawnTimer = game'.time
            ELSE IF game.state = "locking" /\ game'.tetrion.canMoveDown
            THEN game'.state = "idle" /\ game'.gravityTimer = game'.time
            ELSE game'.state = game.state /\ Timers(game') = Timers(game)
         /\ game.state = "idle" => game'.state # "locking" ]_vars

\* a command that aborted locking: the game is idle again and its gravity
\* timer restarted, the lock timer being the older one
C9_Witness ==
  /\ Ticked /\ did.fired = "command"
  /\ game.state = "idle" /\ game.gravityTimer = game.time
  /\ game.lockTimer < game.time /\ game.lockTimer > 0
  /\ game.tetrion.fallingPiece /\ game.tetrion.canMoveDown

\* C10 as stated: the reward is null in the new game and in the game
\* returned by every tick in which no branch ran.
C10_RewardNullAfterNoop ==
  /\ did.name = "new" => game.reward = Null
  /\ (Ticked /\ did.fired = "none") => game.reward = Null

\* C10 amended: the reward is null in the new game, and a tick in which no
\* branch ran returns the reward it found: null only if it was null before.
C10_RewardKeptByNoop ==
  [][ /\ did.name = "new" => game.reward = Null
      /\ (did'.name = "tick" /\ did'.fired = "none")
         => game'.reward = game.reward ]_vars

\* a tick in which no branch ran, returning the reward of an earlier gravity
\* step or command
C10_Witness ==
  /\ Ticked /\ did.fired = "none" /\ ~game.paused
  /\ game.reward # Null

\* C11: pause() returns the game with paused flipped and every other field
\* as it was, mute() the game with muted flipped and every other field as it
\* was, in every state and also while paused; either call made twice gives
\* back the game it started from.
C11_TogglesChangeOneField ==
  [][ /\ did'.name = "pause"
         => (game' = [game EXCEPT !.paused = ~game.paused] /\ Silent(did'))
      /\ did'.name = "mute"
         => (game' = [game EXCEPT !.muted = ~game.muted] /\ Silent(did'))
      /\ pause(pause(game)) = game
      /\ mute(mute(game)) = game ]_vars

\* a finished game, paused, on which mute() has just been called after time
\* had passed
C11_Witness ==
  /\ did.name = "mute" /\ game.paused /\ game.muted
  /\ game.state = "finished" /\ game.time > 0

\* C13 as stated: a tick given a command outside the command set fails with
\* an error and returns no game, whatever the state and whether or not a
\* timer is due.
C13_UnknownCommandFailsFast ==
  (Ticked /\ did.command = Unknown /\ did.fired # "paused")
  => did.fired = "threw"

\* what the code does: the unknown command makes the tick fail only when it
\* is dispatched, and is ignored by every other tick
C13_UnknownCommandFailsOnlyInDispatch ==
  [][ (did'.name = "tick" /\ did'.command = Unknown /\ ~game.paused)
      => IF game.state \in {"idle", "locking"}
            /\ did'.fired \notin {"gravity", "lock"}
         THEN did'.fired = "threw" /\ game' = game
         ELSE did'.fired \in {"spawn", "gravity", "lock", "none"} ]_vars

\* a spawn made by a tick that was given the unknown command
C13_Witness ==
  /\ Ticked /\ did.command = Unknown /\ did.fired = "spawn"
  /\ game.state = "idle"

\* C14 as stated: gravityDelay is 1000 at level 1 and 769 at level 2, and for
\* every pair of levels a < b, gravityDelay at a is greater than at b.
C14_StrictlyDecreasing ==
  /\ level(game) = 1 => gravityDelay(game) = 1000
  /\ level(game) = 2 => gravityDelay(game) = 769
  /\ \A a \in 1 .. level(game) - 1 : GravityDelays[a] > gravityDelay(game)

\* C14 amended: gravityDelay is 1000 at level 1 and 769 at level 2 and the
\* values JavaScript gives up to level 24; for every pair of levels a < b,
\* gravityDelay at a is at least that at b, and greater when b <= 356; levels
\* 356 and 357 have the same delay.  A tick of an idle game applies gravity
\* exactly when the time since gravityTimer has reached gravityDelay.
C14_DecreasingUpTo356 ==
  LET b == level(game)
  IN /\ b = 1 => gravityDelay(game) = 1000
     /\ b = 2 => gravityDelay(game) = 769
     /\ b <= Len(GravityTable) => gravityDelay(game) = GravityTable[b]
     /\ \A a \in 1 .. b - 1 :
          /\ GravityDelays[a] >= gravityDelay(game)
          /\ b <= 356 => GravityDelays[a] > gravityDelay(game)
     /\ b = 357 => GravityDelays[356] = gravityDelay(game)
     /\ (Ticked /\ ticks = 1 /\ game.lockTimer = 0 /\ game.spawnTimer = 0)
        => (did.fired = "gravity" <=> game.time >= gravityDelay(game))

\* a game at level 357, whose delay is that of level 356, after a tick that
\* applied gravity
C14_Witness ==
  /\ level(game) = 357 /\ gravityDelay(game) = GravityDelays[356]
  /\ Ticked /\ did.fired = "gravity" /\ game.gravityTimer = game.time

\* C15: a tick passes at most one cue to play(), and passes one exactly when
\* the game is not muted and the tick made a spawn that failed (game-over),
\* a gravity step, blocked or not (move), a lock, or a command that returned
\* a new tetrion; a successful spawn, a tick that ran no branch, a paused tick,
\* a command that returned the tetrion unchanged and every tick of a muted
\* game pass none.
C15_CueExactlyWhen ==
  Ticked
  => /\ Len(did.sounds) <= 1
     /\ did.sounds # <<>>
        <=> /\ ~game.muted
            /\ \/ did.fired = "spawn" /\ did.calls[1].same
               \/ did.fired = "gravity"
               \/ did.fired = "lock"
               \/ did.fired = "command" /\ ~did.calls[1].same
     /\ (did.fired = "spawn" /\ did.sounds # <<>>)
        => did.sounds = <<"game-over">>
     /\ (did.fired = "gravity" /\ did.sounds # <<>>) => did.sounds = <<"move">>

\* a blocked gravity step of a game that is not muted, with its move cue
C15_Witness ==
  /\ Ticked /\ ~game.muted /\ did.fired = "gravity" /\ did.calls[1].same
  /\ did.sounds = <<"move">> /\ game.state = "locking"

\* the cue of a command when no line was cleared and the level did not rise
Category(command) ==
  CASE command \in {"moveLeft", "moveRight", "moveDown", "softDrop"} -> "move"
    [] command \in {"rotateLeft", "rotateRight"} -> "rotate"
    [] command \in {"firmDrop", "hardDrop"} -> "drop"
    [] command = "hold" -> "hold"
    [] command = "lock" -> "lock"

\* C16: the cue of a lock or of a dispatched command is level-up when the
\* level of the progress after progress.add is above the one before, else
\* clear-line when the reward has lines > 0, else the cue of the command's
\* category, lock for a lock; a level-up together with cleared lines plays
\* level-up only.
C16_CuePriority ==
  [][ (did'.name = "tick" /\ did'.fired \in {"lock", "command"}
       /\ did'.sounds # <<>>)
      => did'.sounds =
           << IF level(game') > level(game) THEN "level-up"
              ELSE IF game'.reward.lines > 0 THEN "clear-line"
              ELSE Category(IF did'.fired = "lock" THEN "lock"
                            ELSE did'.command) >> ]_vars

\* a rotation that cleared a line and raised the level, with the level-up cue
C16_Witness ==
  /\ Ticked /\ did.fired = "command" /\ did.command = "rotateLeft"
  /\ game.reward.lines > 0 /\ level(game) = 2
  /\ did.sounds = <<"level-up">>

\* C17: a tick of a game that is not paused, given a command while the game
\* is spawning or finished, or idle or locking with the gravity or the lock
\* delay reached, returns the game that the same tick without a command
\* returns, and invokes the same tetrion operations, progress.add and cue.
C17_CommandDiscarded ==
  [][ ( /\ did'.name = "tick" /\ did'.given /\ ~game.paused
        /\ \/ game.state \in {"spawning", "finished"}
           \/ /\ game.state = "idle"
              /\ game'.time - game.gravityTimer >= gravityDelay(game)
           \/ /\ game.state = "locking"
              /\ game'.time - game.lockTimer >= LOCK_DELAY )
      => LET delta == game'.time - game.time
             \* the answers the engine and the tracker gave to this tick
             env == [same |-> did'.calls = <<>> \/ did'.calls[1].same,
                     tetrion |-> game'.tetrion,
                     lines |-> IF did'.fired \in {"gravity", "lock"}
                               THEN game'.reward.lines ELSE 0,
                     up |-> level(game') - level(game)]
         IN /\ did'.fired # "command"
            /\ env \in Answers(game, delta, None)
            /\ tick(game, delta, None, env)
               = [game |-> game', fired |-> did'.fired, calls |-> did'.calls,
                  adds |-> did'.adds, sounds |-> did'.sounds] ]_vars

\* a game spawning again after a command left no falling piece, given a
\* command by a tick that came before the spawn delay: only the time passed
C17_Witness ==
  /\ Ticked /\ did.given /\ did.fired = "none" /\ ~game.paused
  /\ game.state = "spawning" /\ game.spawnTimer > 0
  /\ game.time - game.spawnTimer = 99

C19_PieceWhileIdleOrLocking ==
  /\ game.state \in {"idle", "locking"} => game.tetrion.fallingPiece
  /\ game.state = "locking" => ~game.tetrion.canMoveDown

\* a game still locking after a command changed the board
C19_Witness ==
  /\ Ticked /\ did.fired = "command" /\ ~did.calls[1].same
  /\ game.state = "locking" /\ game.tetrion.fallingPiece
  /\ ~game.tetrion.canMoveDown

\* C20: a game that is not paused and keeps being ticked with delta >= 1 and
\* no command does not stay spawning or locking for ever: a spawning game
\* becomes idle or finished, a locking game becomes spawning, and on a finite
\* board an idle game becomes locking.
C20_NoStateForEver ==
  /\ (game.state = "spawning") ~> (game.state \in {"idle", "finished"})
  /\ (game.state = "locking") ~> (game.state = "spawning")
  /\ (game.state = "idle") ~> (game.state = "locking")

\* a game over on the finite board after its pieces were spawned, fell and
\* were locked, the last lock made by ticks that passed the lock delay, and
\* the last spawn failed
C20_Witness ==
  /\ over(game) /\ Ticked /\ did.fired = "spawn" /\ did.calls[1].same
  /\ game.tetrion.pieces = 0 /\ game.lockTimer > 0
  /\ game.spawnTimer > game.lockTimer + LOCK_DELAY

====
